---- MODULE Spec2Model ----
(***************************************************************************)
(* Stroke synchronisation of draw-together: the WebSocket server           *)
(* (packages/server/server.ts) and the browser clients                     *)
(* (packages/client/src/main.ts).                                          *)
(*                                                                         *)
(* A text frame on the wire is a record: [kind |-> "garbage"] is a text    *)
(* that JSON.parse rejects, [kind |-> "null"] is the JSON text null, and   *)
(* [kind |-> "object", value |-> o] is the JSON text of the object o.  An  *)
(* object is a record whose DOMAIN is the set of its fields, so a missing  *)
(* field is a field that is not in the DOMAIN (a field holding null or     *)
(* another falsy value is treated by every test of the code exactly like a *)
(* missing one, and is modelled as missing).                               *)
(*                                                                         *)
(* Points are world-space points, i.e. the values toWorld returns; the     *)
(* viewport (scale, offsetX, offsetY) is not part of the model.            *)
(***************************************************************************)
EXTENDS Integers, Sequences, FiniteSets, TLC

\* ---------------------------------------------------------------- bounds
NumClients == 2          \* browser pages / sockets that ever connect
MaxEvents == 4           \* page loads, pointerdowns, pointermoves, timer ticks, closes, raw frames
MaxPoints == 2           \* longest point sequence of a stroke
MaxPointers == 2         \* fingers of a touch screen

Clients == 1..NumClients
MousePointer == 1                              \* the pointerId of the mouse
Buttons == {0, 2}                              \* e.button: primary, secondary
Colors == {"#0000ff", "#ff0000"}               \* values of getRandomColor
Points == {[x |-> 0, y |-> 0]}                 \* values of toWorld
PointerIds == 1..MaxPointers                   \* the pointerIds of a touch screen
TouchPoints == {[x |-> 0, y |-> 0], [x |-> 1, y |-> 0]}   \* values of toWorld

\* the value of Math.random().toString(36).slice(2) in page c: the random ids
\* of different pages are taken to be different
IdOf(c) == <<"id", c>>

\* ------------------------------------------------------- program constants
StrokeWidth == 3                               \* width of a new stroke

Null == [null |-> TRUE]                        \* currentStroke = null
NoInterval == 0                                \* updateInterval = null

VARIABLES
    strokes,          \* server: const strokes: any[]
    conn,             \* server: per socket "none" | "open" | "closing" | "closed"
    crashed,          \* server: the process died of an uncaught exception
    toServer,         \* frames in flight, client -> server, FIFO per socket
    toClient,         \* frames in flight, server -> client, FIFO per socket
    wsState,          \* client: ws.readyState "connecting" | "open" | "closed"
    clientId,         \* client: let clientId
    clientStrokes,    \* client: const strokes: Stroke[]
    remoteStrokes,    \* client: const remoteStrokes = new Map<string, Stroke>()
    currentStroke,    \* client: let currentStroke
    updateInterval,   \* client: let updateInterval
    timers,           \* client: the intervals setInterval started and nobody cleared
    activePointers,   \* client: key set of const activePointers
    origin,           \* history: for each frame of toClient, the socket it came from (0: none)
    joinedAt,         \* history: Len(strokes) when the socket connected (-1: not yet)
    sent,             \* history: types of all frames the server sent on the socket
    handled,          \* history: types of the frames of the socket the server dispatched
    events,           \* input events so far (a pointerup or pointercancel needs an
                      \* earlier pointerdown and is not counted)
    gesture,          \* history: strokes the page has started; the number of the
                      \* stroke currentStroke holds
    ups,              \* history: pointerup events the page has handled
    sendLog,          \* history: the ws.send calls of the page that returned
    pushedFrom,       \* history: for each stroke of clientStrokes, the socket whose
                      \* frame the relay answered (0: it came in a snapshot)
    seen              \* history: types of the frames the page's listener handled

serverVars == <<strokes, conn, crashed>>
netVars == <<toServer, toClient, origin>>
syncVars == <<clientStrokes, remoteStrokes>>
gestureVars == <<currentStroke, updateInterval, timers, activePointers>>
histVars == <<joinedAt, sent, handled>>
obsVars == <<gesture, ups, sendLog, pushedFrom, seen>>
vars == <<strokes, conn, crashed, toServer, toClient, wsState, clientId,
          clientStrokes, remoteStrokes, currentStroke, updateInterval, timers,
          activePointers, origin, joinedAt, sent, handled, events, gesture,
          ups, sendLog, pushedFrom, seen>>

\* --------------------------------------------------------------- helpers
IsPrefix(s, t) == Len(s) <= Len(t) /\ SubSeq(t, 1, Len(s)) = s

Has(o, f) == f \in DOMAIN o

\* JSON.stringify of an object whose fields are all defined
JSONstringify(o) == [kind |-> "object", value |-> o]

\* JSON.parse throws on this text
ParseThrows(text) == text.kind = "garbage"

\* the value of `data.type` where data is a parsed object
TypeOf(data) == IF Has(data, "type") THEN data.type ELSE "undefined"

\* type of a frame, for the history variables
FrameType(text) ==
    IF text.kind = "object" THEN TypeOf(text.value) ELSE text.kind

EmptyMap == [k \in {} |-> Null]

MapSet(m, k, v) == [j \in DOMAIN m \cup {k} |-> IF j = k THEN v ELSE m[j]]

MapDelete(m, k) == [j \in DOMAIN m \ {k} |-> m[j]]

\* ---------------------------------------------------------------- server
\* data.type === 'stroke' && data.stroke
IsStroke(data) == TypeOf(data) = "stroke" /\ Has(data, "stroke")

\* variant of PushStroke: the stroke is put in front (unshift instead of push)
PushStrokeFront(log, stroke) == <<stroke>> \o log

\* strokes.push(data.stroke)
PushStroke(log, stroke) == Append(log, stroke)

\* the frame sent to every client for an accepted stroke
RelayFrame(data) == JSONstringify([type |-> "stroke", stroke |-> data.stroke])

\* the frame sent to a new connection
HistoryFrame(log) == JSONstringify([type |-> "history", strokes |-> log])

\* variant of Greeting: the snapshot is built before the log is read
GreetingEmptyHistory(log) == <<HistoryFrame(<<>>)>>

\* variant of Greeting: the 'connection' handler sends nothing
GreetingNone(log) == <<>>

\* what the 'connection' handler sends on the new socket
Greeting(log) == <<HistoryFrame(log)>>

\* variant of Broadcast: a stroke is not echoed to the socket it came from
BroadcastSkipSender(ws, data, d) ==
    IF IsStroke(data) /\ conn[d] = "open" /\ d # ws
    THEN <<RelayFrame(data)>> ELSE <<>>

\* variant of Broadcast: a stroke-update is passed on, as received, to the
\* other open sockets
BroadcastPreviewToOthers(ws, data, d) ==
    IF conn[d] # "open" THEN <<>>
    ELSE IF IsStroke(data) THEN <<RelayFrame(data)>>
    ELSE IF TypeOf(data) = "stroke-update" /\ d # ws THEN <<JSONstringify(data)>>
    ELSE <<>>

\* variant of Broadcast: a stroke-update is passed on, as received, to every
\* open socket
BroadcastPreviewToAll(ws, data, d) ==
    IF conn[d] # "open" THEN <<>>
    ELSE IF IsStroke(data) THEN <<RelayFrame(data)>>
    ELSE IF TypeOf(data) = "stroke-update" THEN <<JSONstringify(data)>>
    ELSE <<>>

\* variant of Broadcast: readyState is not tested, every socket of
\* wss.clients is sent the stroke
BroadcastIgnoresReadyState(ws, data, d) ==
    IF IsStroke(data) /\ conn[d] \in {"open", "closing"}
    THEN <<RelayFrame(data)>> ELSE <<>>

\* the frames the 'message' handler sends to socket d for the parsed data
\* that arrived on socket ws
Broadcast(ws, data, d) ==
    IF IsStroke(data) /\ conn[d] = "open" THEN <<RelayFrame(data)>> ELSE <<>>

\* wss.on('connection'): the handshake of socket ws completes; the page's
\* socket becomes OPEN with it (ws.addEventListener("open") only logs)
Connection(ws) ==
    /\ ~crashed
    /\ events < MaxEvents
    /\ events' = events + 1
    /\ conn[ws] = "none"
    /\ wsState[ws] = "connecting"
    /\ conn' = [conn EXCEPT ![ws] = "open"]
    /\ toClient' = [toClient EXCEPT ![ws] = @ \o Greeting(strokes)]
    /\ origin' = [origin EXCEPT ![ws] = @ \o [i \in 1..Len(Greeting(strokes)) |-> 0]]
    /\ joinedAt' = [joinedAt EXCEPT ![ws] = Len(strokes)]
    /\ sent' = [sent EXCEPT ![ws] = @ \o [i \in 1..Len(Greeting(strokes)) |->
                                            FrameType(Greeting(strokes)[i])]]
    /\ wsState' = [wsState EXCEPT ![ws] = "open"]
    /\ UNCHANGED <<strokes, crashed, toServer, clientId, syncVars, gestureVars,
                   handled>>
    /\ UNCHANGED obsVars

\* ws.on('message'): the server takes the next frame of socket ws
OnMessage(ws) ==
    /\ ~crashed
    /\ conn[ws] = "open"
    /\ toServer[ws] # <<>>
    /\ LET message == Head(toServer[ws]) IN
       /\ toServer' = [toServer EXCEPT ![ws] = Tail(@)]
       /\ handled' = [handled EXCEPT ![ws] = @ \cup {FrameType(message)}]
       /\ IF ParseThrows(message)
          THEN \* catch (e) { return; }
               UNCHANGED <<strokes, crashed, toClient, origin, sent>>
          ELSE IF message.kind = "null"
          THEN \* data is null: data.type throws outside the try block
               /\ crashed' = TRUE
               /\ UNCHANGED <<strokes, toClient, origin, sent>>
          ELSE LET data == message.value IN
               /\ strokes' = IF IsStroke(data) THEN PushStroke(strokes, data.stroke)
                                               ELSE strokes
               /\ toClient' = [d \in Clients |-> toClient[d] \o Broadcast(ws, data, d)]
               /\ origin' = [d \in Clients |-> origin[d] \o
                               [i \in 1..Len(Broadcast(ws, data, d)) |-> ws]]
               /\ sent' = [d \in Clients |-> sent[d] \o
                               [i \in 1..Len(Broadcast(ws, data, d)) |->
                                   FrameType(Broadcast(ws, data, d)[i])]]
               /\ UNCHANGED crashed
    /\ UNCHANGED <<conn, wsState, clientId, syncVars, gestureVars, joinedAt, events>>
    /\ UNCHANGED obsVars

\* ---------------------------------------------------------------- client
\* ws.send(text) returns normally (it throws while the socket is connecting)
SendReturns(c) == wsState[c] # "connecting"

\* toServer after ws.send(text) of client c: a closed socket discards the text
AfterSend(c, text) ==
    IF wsState[c] = "open" THEN [toServer EXCEPT ![c] = Append(@, text)]
                           ELSE toServer

\* the entry of sendLog for a frame of the given type that carries currentStroke
Sent(c, type) ==
    [type |-> type, gesture |-> gesture[c], stroke |-> currentStroke[c],
     wire |-> wsState[c] = "open"]

\* variant of StrokesAfter: a relayed stroke is put in front of the history
StrokesAfterFront(old, data) ==
    LET pushed == IF TypeOf(data) = "stroke" /\ Has(data, "stroke")
                  THEN <<data.stroke>> \o old ELSE old
    IN  IF TypeOf(data) = "history" /\ Has(data, "strokes")
        THEN data.strokes ELSE pushed

\* variant of StrokesAfter: a relayed stroke is pushed twice
StrokesAfterTwice(old, data) ==
    LET pushed == IF TypeOf(data) = "stroke" /\ Has(data, "stroke")
                  THEN old \o <<data.stroke, data.stroke>> ELSE old
    IN  IF TypeOf(data) = "history" /\ Has(data, "strokes")
        THEN data.strokes ELSE pushed

\* variant of StrokesAfter: a relayed stroke is not pushed
StrokesAfterHistoryOnly(old, data) ==
    IF TypeOf(data) = "history" /\ Has(data, "strokes")
    THEN data.strokes ELSE old

\* strokes after the "message" listener handled the parsed data
StrokesAfter(old, data) ==
    LET pushed == IF TypeOf(data) = "stroke" /\ Has(data, "stroke")
                  THEN Append(old, data.stroke) ELSE old
    IN  IF TypeOf(data) = "history" /\ Has(data, "strokes")
        THEN data.strokes ELSE pushed

\* variant of RemoteAfter: a snapshot leaves the previews in place
RemoteAfterKeepsOnHistory(old, data, self) ==
    LET deleted == IF TypeOf(data) = "stroke" /\ Has(data, "stroke")
                      /\ Has(data, "clientId")
                   THEN MapDelete(old, data.clientId) ELSE old
    IN  IF TypeOf(data) = "stroke-update" /\ Has(data, "stroke")
           /\ Has(data, "clientId") /\ data.clientId # self
        THEN MapSet(deleted, data.clientId, data.stroke) ELSE deleted

\* remoteStrokes after the "message" listener of the client whose id is self
\* handled the parsed data
RemoteAfter(old, data, self) ==
    LET deleted == IF TypeOf(data) = "stroke" /\ Has(data, "stroke")
                      /\ Has(data, "clientId")
                   THEN MapDelete(old, data.clientId) ELSE old
        set == IF TypeOf(data) = "stroke-update" /\ Has(data, "stroke")
                  /\ Has(data, "clientId") /\ data.clientId # self
               THEN MapSet(deleted, data.clientId, data.stroke) ELSE deleted
    IN  IF TypeOf(data) = "history" /\ Has(data, "strokes")
        THEN EmptyMap ELSE set

\* ws.addEventListener("message"): client c takes its next frame
ClientOnMessage(c) ==
    /\ wsState[c] = "open"
    /\ toClient[c] # <<>>
    /\ LET text == Head(toClient[c]) IN
       /\ toClient' = [toClient EXCEPT ![c] = Tail(@)]
       /\ origin' = [origin EXCEPT ![c] = Tail(@)]
       /\ IF text.kind # "object"
          THEN \* JSON.parse or data.type throws inside the try block
               UNCHANGED syncVars
          ELSE /\ clientStrokes' = [clientStrokes EXCEPT ![c] =
                                       StrokesAfter(@, text.value)]
               /\ remoteStrokes' = [remoteStrokes EXCEPT ![c] =
                                       RemoteAfter(@, text.value, clientId[c])]
    /\ seen' = [seen EXCEPT ![c] = Append(@, FrameType(Head(toClient[c])))]
    /\ pushedFrom' = [pushedFrom EXCEPT ![c] =
           IF FrameType(Head(toClient[c])) = "history"
           THEN [i \in 1..Len(clientStrokes'[c]) |-> 0]
           ELSE @ \o [i \in 1..(Len(clientStrokes'[c]) - Len(clientStrokes[c])) |->
                         origin[c][1]]]
    /\ UNCHANGED <<serverVars, toServer, wsState, clientId, gestureVars,
                   histVars, events, gesture, ups, sendLog>>

\* the handle window.setInterval returns: a positive number no live interval has
FreshTimer(c) ==
    CHOOSE t \in 1..(Cardinality(timers[c]) + 1) :
        /\ t \notin timers[c]
        /\ \A u \in 1..(t - 1) : u \in timers[c]

\* canvas.addEventListener("pointerdown")
PointerDown(c, id, button, pos, color) ==
    /\ events < MaxEvents
    /\ id \notin activePointers[c]
    /\ events' = events + 1
    /\ activePointers' = [activePointers EXCEPT ![c] = @ \cup {id}]
    /\ IF Cardinality(activePointers'[c]) = 1 /\ button = 0
       THEN /\ currentStroke' = [currentStroke EXCEPT ![c] =
                    [points |-> <<pos>>, color |-> color, width |-> StrokeWidth]]
            /\ timers' = [timers EXCEPT ![c] = @ \cup {FreshTimer(c)}]
            /\ updateInterval' = [updateInterval EXCEPT ![c] = FreshTimer(c)]
       ELSE UNCHANGED <<currentStroke, timers, updateInterval>>
    /\ UNCHANGED <<serverVars, netVars, wsState, clientId, syncVars, histVars>>
    /\ gesture' = IF Cardinality(activePointers'[c]) = 1 /\ button = 0
                  THEN [gesture EXCEPT ![c] = @ + 1] ELSE gesture
    /\ UNCHANGED <<ups, sendLog, pushedFrom, seen>>

\* canvas.addEventListener("pointermove")
PointerMove(c, id, pos) ==
    /\ events < MaxEvents
    /\ id \in activePointers[c]
    /\ events' = events + 1
    /\ IF Cardinality(activePointers[c]) = 1 /\ currentStroke[c] # Null
       THEN /\ Len(currentStroke[c].points) < MaxPoints
            /\ currentStroke' = [currentStroke EXCEPT ![c] =
                    [@ EXCEPT !.points = Append(@, pos)]]
       ELSE \* the pinch branch changes the viewport only
            UNCHANGED currentStroke
    /\ UNCHANGED <<serverVars, netVars, wsState, clientId, syncVars,
                   updateInterval, timers, activePointers, histVars>>
    /\ UNCHANGED obsVars

\* the frame pointerup sends for the stroke
StrokeFrame(c) ==
    JSONstringify([type |-> "stroke", stroke |-> currentStroke[c],
                   clientId |-> clientId[c]])

\* the frame the interval callback sends for the stroke
UpdateFrame(c) ==
    JSONstringify([type |-> "stroke-update", stroke |-> currentStroke[c],
                   clientId |-> clientId[c]])

\* variant of PointerUp: the stroke is sent and the interval cleared, but
\* currentStroke is not set to null
PointerUpKeepsStroke(c, id) ==
    /\ id \in activePointers[c]
    /\ UNCHANGED events
    /\ activePointers' = [activePointers EXCEPT ![c] = @ \ {id}]
    /\ IF currentStroke[c] # Null /\ ~SendReturns(c)
       THEN \* ws.send throws: the rest of the listener does not run
            UNCHANGED <<toServer, currentStroke, updateInterval, timers>>
       ELSE /\ toServer' = IF currentStroke[c] # Null
                           THEN AfterSend(c, StrokeFrame(c)) ELSE toServer
            /\ UNCHANGED currentStroke
            /\ timers' = [timers EXCEPT ![c] = @ \ {updateInterval[c]}]
            /\ updateInterval' = [updateInterval EXCEPT ![c] = NoInterval]
    /\ UNCHANGED <<serverVars, toClient, origin, wsState, clientId, syncVars,
                   histVars>>
    /\ ups' = [ups EXCEPT ![c] = @ + 1]
    /\ sendLog' = IF currentStroke[c] # Null /\ SendReturns(c)
                  THEN [sendLog EXCEPT ![c] = Append(@, Sent(c, "stroke"))]
                  ELSE sendLog
    /\ UNCHANGED <<gesture, pushedFrom, seen>>

\* variant of PointerUp: the stroke is sent, but currentStroke is not set to
\* null and the interval is not cleared
PointerUpKeepsRunning(c, id) ==
    /\ id \in activePointers[c]
    /\ UNCHANGED events
    /\ activePointers' = [activePointers EXCEPT ![c] = @ \ {id}]
    /\ IF currentStroke[c] # Null /\ ~SendReturns(c)
       THEN \* ws.send throws: the rest of the listener does not run
            UNCHANGED <<toServer, currentStroke, updateInterval, timers>>
       ELSE /\ toServer' = IF currentStroke[c] # Null
                           THEN AfterSend(c, StrokeFrame(c)) ELSE toServer
            /\ UNCHANGED currentStroke
            /\ UNCHANGED <<timers, updateInterval>>
    /\ UNCHANGED <<serverVars, toClient, origin, wsState, clientId, syncVars,
                   histVars>>
    /\ ups' = [ups EXCEPT ![c] = @ + 1]
    /\ sendLog' = IF currentStroke[c] # Null /\ SendReturns(c)
                  THEN [sendLog EXCEPT ![c] = Append(@, Sent(c, "stroke"))]
                  ELSE sendLog
    /\ UNCHANGED <<gesture, pushedFrom, seen>>

\* canvas.addEventListener("pointerup")
PointerUp(c, id) ==
    /\ id \in activePointers[c]
    /\ UNCHANGED events
    /\ activePointers' = [activePointers EXCEPT ![c] = @ \ {id}]
    /\ IF currentStroke[c] # Null /\ ~SendReturns(c)
       THEN \* ws.send throws: the rest of the listener does not run
            UNCHANGED <<toServer, currentStroke, updateInterval, timers>>
       ELSE /\ toServer' = IF currentStroke[c] # Null
                           THEN AfterSend(c, StrokeFrame(c)) ELSE toServer
            /\ currentStroke' = [currentStroke EXCEPT ![c] = Null]
            /\ timers' = [timers EXCEPT ![c] = @ \ {updateInterval[c]}]
            /\ updateInterval' = [updateInterval EXCEPT ![c] = NoInterval]
    /\ UNCHANGED <<serverVars, toClient, origin, wsState, clientId, syncVars,
                   histVars>>
    /\ ups' = [ups EXCEPT ![c] = @ + 1]
    /\ sendLog' = IF currentStroke[c] # Null /\ SendReturns(c)
                  THEN [sendLog EXCEPT ![c] = Append(@, Sent(c, "stroke"))]
                  ELSE sendLog
    /\ UNCHANGED <<gesture, pushedFrom, seen>>

\* canvas.addEventListener("pointercancel")
PointerCancel(c, id) ==
    /\ id \in activePointers[c]
    /\ UNCHANGED events
    /\ activePointers' = [activePointers EXCEPT ![c] = @ \ {id}]
    /\ UNCHANGED <<serverVars, netVars, wsState, clientId, syncVars,
                   currentStroke, updateInterval, timers, histVars>>
    /\ UNCHANGED obsVars

\* the callback of interval t fires
Tick(c, t) ==
    /\ events < MaxEvents
    /\ t \in timers[c]
    /\ events' = events + 1
    /\ toServer' = IF currentStroke[c] # Null /\ SendReturns(c)
                   THEN AfterSend(c, UpdateFrame(c)) ELSE toServer
    /\ UNCHANGED <<serverVars, toClient, origin, wsState, clientId, syncVars,
                   gestureVars, histVars>>
    /\ sendLog' = IF currentStroke[c] # Null /\ SendReturns(c)
                  THEN [sendLog EXCEPT ![c] = Append(@, Sent(c, "stroke-update"))]
                  ELSE sendLog
    /\ UNCHANGED <<gesture, ups, pushedFrom, seen>>

\* ------------------------------------------------------------- transport
\* the socket of client c closes on the client's side
ClientClose(c) ==
    /\ events < MaxEvents
    /\ wsState[c] = "open"
    /\ events' = events + 1
    /\ wsState' = [wsState EXCEPT ![c] = "closed"]
    /\ UNCHANGED <<serverVars, netVars, clientId, syncVars, gestureVars, histVars>>
    /\ UNCHANGED obsVars

\* the server learns that socket ws is closing: readyState leaves OPEN
ServerClosing(ws) ==
    /\ ~crashed
    /\ conn[ws] = "open"
    /\ wsState[ws] = "closed"
    /\ toServer[ws] = <<>>
    /\ conn' = [conn EXCEPT ![ws] = "closing"]
    /\ UNCHANGED <<strokes, crashed, netVars, wsState, clientId, syncVars,
                   gestureVars, histVars, events>>
    /\ UNCHANGED obsVars

\* the socket is closed and leaves wss.clients
ServerClosed(ws) ==
    /\ ~crashed
    /\ conn[ws] = "closing"
    /\ conn' = [conn EXCEPT ![ws] = "closed"]
    /\ UNCHANGED <<strokes, crashed, netVars, wsState, clientId, syncVars,
                   gestureVars, histVars, events>>
    /\ UNCHANGED obsVars

\* ------------------------------------------------------ arbitrary peers
WellFormedStroke ==
    [points |-> <<[x |-> 0, y |-> 0]>>, color |-> "#0000ff", width |-> StrokeWidth]

\* the text frames a peer that is not the page of this repository may send
RawFrames ==
    { [kind |-> "garbage"],
      [kind |-> "null"],
      JSONstringify([clientId |-> "zz"]),
      JSONstringify([type |-> "stroke"]),
      JSONstringify([type |-> "stroke", stroke |-> [color |-> "#ff0000"]]),
      JSONstringify([type |-> "stroke", stroke |-> [points |-> <<>>, width |-> StrokeWidth]]),
      JSONstringify([type |-> "stroke", stroke |-> WellFormedStroke]),
      JSONstringify([type |-> "stroke", stroke |-> WellFormedStroke, clientId |-> "zz"]),
      JSONstringify([type |-> "stroke-update", stroke |-> WellFormedStroke, clientId |-> "zz"]) }

\* a peer writes the text on its socket
RawSend(ws, text) ==
    /\ events < MaxEvents
    /\ conn[ws] = "open"
    /\ events' = events + 1
    /\ toServer' = [toServer EXCEPT ![ws] = Append(@, text)]
    /\ UNCHANGED <<serverVars, toClient, origin, wsState, clientId, syncVars,
                   gestureVars, histVars>>
    /\ UNCHANGED obsVars

Init ==
    /\ strokes = <<>>
    /\ conn = [c \in Clients |-> "none"]
    /\ crashed = FALSE
    /\ toServer = [c \in Clients |-> <<>>]
    /\ toClient = [c \in Clients |-> <<>>]
    /\ wsState = [c \in Clients |-> "connecting"]
    /\ clientId = [c \in Clients |-> IdOf(c)]
    /\ clientStrokes = [c \in Clients |-> <<>>]
    /\ remoteStrokes = [c \in Clients |-> EmptyMap]
    /\ currentStroke = [c \in Clients |-> Null]
    /\ updateInterval = [c \in Clients |-> NoInterval]
    /\ timers = [c \in Clients |-> {}]
    /\ activePointers = [c \in Clients |-> {}]
    /\ origin = [c \in Clients |-> <<>>]
    /\ joinedAt = [c \in Clients |-> -1]
    /\ sent = [c \in Clients |-> <<>>]
    /\ handled = [c \in Clients |-> {}]
    /\ events = 0
    /\ gesture = [c \in Clients |-> 0]
    /\ ups = [c \in Clients |-> 0]
    /\ sendLog = [c \in Clients |-> <<>>]
    /\ pushedFrom = [c \in Clients |-> <<>>]
    /\ seen = [c \in Clients |-> <<>>]

\* the input events of a page driven by a mouse
MouseEvent(c) ==
    \/ \E button \in Buttons, pos \in Points, color \in Colors :
           PointerDown(c, MousePointer, button, pos, color)
    \/ \E pos \in Points : PointerMove(c, MousePointer, pos)
    \/ PointerUp(c, MousePointer)
    \/ PointerCancel(c, MousePointer)
    \/ \E t \in 1..MaxEvents : Tick(c, t)

\* the server, the sockets and the pages, each page driven by a mouse
Next ==
    \E c \in Clients :
        \/ Connection(c)
        \/ OnMessage(c)
        \/ ClientOnMessage(c)
        \/ MouseEvent(c)
        \/ ClientClose(c)
        \/ ServerClosing(c)
        \/ ServerClosed(c)

Spec == Init /\ [][Next]_vars

\* the server and sockets whose peers write arbitrary text frames
NextRaw ==
    \E ws \in Clients :
        \/ Connection(ws)
        \/ \E text \in RawFrames : RawSend(ws, text)
        \/ OnMessage(ws)

SpecRaw == Init /\ [][NextRaw]_vars

\* the input events of a page driven by a touch screen (e.button is 0 for
\* every contact)
TouchEvent(c) ==
    \/ \E id \in PointerIds, pos \in TouchPoints, color \in Colors :
           PointerDown(c, id, 0, pos, color)
    \/ \E id \in PointerIds, pos \in TouchPoints : PointerMove(c, id, pos)
    \/ \E id \in PointerIds : PointerUp(c, id)
    \/ \E id \in PointerIds : PointerCancel(c, id)
    \/ \E t \in 1..MaxEvents : Tick(c, t)

\* the page that is driven by the touch screen
TouchPage == 1

\* the server and one page, driven by a touch screen
NextTouch ==
    \/ Connection(TouchPage)
    \/ OnMessage(TouchPage)
    \/ ClientOnMessage(TouchPage)
    \/ TouchEvent(TouchPage)
    \/ ClientClose(TouchPage)
    \/ ServerClosing(TouchPage)
    \/ ServerClosed(TouchPage)

SpecTouch == Init /\ [][NextTouch]_vars

\* ws.addEventListener("open"): the socket of page c opens; the server at
\* wsUrl need not be the one of this repository
Open(c) ==
    /\ wsState[c] = "connecting"
    /\ wsState' = [wsState EXCEPT ![c] = "open"]
    /\ UNCHANGED <<serverVars, netVars, clientId, syncVars, gestureVars,
                   histVars, events, obsVars>>

\* the text frames the server at wsUrl may send to the page whose id is self
\* (IdOf(0) is the id of another page)
FeedFrames(self) ==
    { [kind |-> "garbage"],
      JSONstringify([type |-> "history", strokes |-> <<>>]),
      JSONstringify([type |-> "history", strokes |-> <<WellFormedStroke>>]),
      JSONstringify([type |-> "stroke", stroke |-> WellFormedStroke]),
      JSONstringify([type |-> "stroke", stroke |-> WellFormedStroke, clientId |-> IdOf(0)]),
      JSONstringify([type |-> "stroke-update", stroke |-> WellFormedStroke, clientId |-> IdOf(0)]),
      JSONstringify([type |-> "stroke-update", stroke |-> WellFormedStroke, clientId |-> self]) }

\* the server at wsUrl writes the text on the socket of page c
Feed(c, text) ==
    /\ events < MaxEvents
    /\ wsState[c] = "open"
    /\ events' = events + 1
    /\ toClient' = [toClient EXCEPT ![c] = Append(@, text)]
    /\ origin' = [origin EXCEPT ![c] = Append(@, 0)]
    /\ UNCHANGED <<serverVars, toServer, wsState, clientId, syncVars, gestureVars,
                   histVars, obsVars>>

\* the page that is fed
FeedPage == 1

\* one page, driven by a mouse, whose server sends arbitrary text frames
NextFeed ==
    \/ Open(FeedPage)
    \/ \E text \in FeedFrames(clientId[FeedPage]) : Feed(FeedPage, text)
    \/ ClientOnMessage(FeedPage)
    \/ MouseEvent(FeedPage)

SpecFeed == Init /\ [][NextFeed]_vars

\* the input events of a page on which dots are drawn with clicks of the
\* primary mouse button
ClickEvent(c) ==
    \/ \E pos \in Points, color \in Colors :
           PointerDown(c, MousePointer, 0, pos, color)
    \/ PointerUp(c, MousePointer)

\* the pages somebody draws on; the other pages only show the drawing
Drawers == {1, 2}

\* the server, the sockets and the pages, the drawers' pages driven by clicks
NextClick ==
    \E c \in Clients :
        \/ Connection(c)
        \/ OnMessage(c)
        \/ ClientOnMessage(c)
        \/ c \in Drawers /\ ClickEvent(c)
        \/ ClientClose(c)
        \/ ServerClosing(c)
        \/ ServerClosed(c)

\* the server dispatches every frame it received and every page every frame
\* its open socket received: both event loops run their 'message' listeners
SpecFair ==
    /\ Init /\ [][NextClick]_vars
    /\ \A c \in Clients : WF_vars(OnMessage(c)) /\ WF_vars(ClientOnMessage(c))

\* ------------------------------------------------------------ properties
\* the server takes the head of toServer[ws] in this step
Dispatched(ws) ==
    /\ toServer[ws] # <<>>
    /\ toServer'[ws] = Tail(toServer[ws])

\* the server takes a frame that passes its test for a finalized stroke
Accepted(ws) ==
    /\ Dispatched(ws)
    /\ Head(toServer[ws]).kind = "object"
    /\ IsStroke(Head(toServer[ws]).value)

\* the history a client holds once it has handled every frame of the queue
RECURSIVE Replay(_, _)
Replay(history, queue) ==
    IF queue = <<>> THEN history
    ELSE Replay(IF Head(queue).kind = "object"
                THEN StrokesAfter(history, Head(queue).value) ELSE history,
                Tail(queue))

\* C1: every client's history is a prefix of the server's stroke log (same
\* strokes, same order, no gap, no duplicate), so any two clients' histories
\* are prefixes of one another.
C1_AppendOrderConvergence ==
    /\ \A c \in Clients : IsPrefix(clientStrokes[c], strokes)
    /\ \A c, d \in Clients : \/ IsPrefix(clientStrokes[c], clientStrokes[d])
                             \/ IsPrefix(clientStrokes[d], clientStrokes[c])

\* two clients finalized different strokes; one client holds both in log
\* order while the other is one stroke behind
C1_Witness ==
    /\ Len(strokes) = 2
    /\ strokes[1] # strokes[2]
    /\ \A c \in Clients : "stroke" \in handled[c]
    /\ \E c, d \in Clients : /\ clientStrokes[c] = strokes
                             /\ Len(clientStrokes[d]) = 1

\* C2: the snapshot of a socket holds exactly the strokes the log held when
\* the socket connected, in log order; and the snapshot followed by the
\* broadcasts queued behind it rebuilds the whole log, so a client that has
\* handled all of them holds the same history as any other such client.
C2_LateJoinConsistency ==
    \A c \in Clients :
        /\ \A i \in 1..Len(toClient[c]) :
               FrameType(toClient[c][i]) = "history" =>
                   /\ joinedAt[c] \in 0..Len(strokes)
                   /\ toClient[c][i].value.strokes = SubSeq(strokes, 1, joinedAt[c])
        /\ conn[c] = "open" => Replay(clientStrokes[c], toClient[c]) = strokes
        /\ \A d \in Clients :
               (conn[c] = "open" /\ conn[d] = "open"
                /\ toClient[c] = <<>> /\ toClient[d] = <<>>)
                   => clientStrokes[c] = clientStrokes[d]

\* a client that joined after a stroke was finalized has handled its snapshot
\* and a later broadcast and holds the history of a client that joined first
C2_Witness ==
    \E c, d \in Clients :
        /\ joinedAt[c] >= 1 /\ joinedAt[d] = 0
        /\ conn[c] = "open" /\ conn[d] = "open"
        /\ toClient[c] = <<>> /\ toClient[d] = <<>>
        /\ Len(clientStrokes[c]) > joinedAt[c]
        /\ clientStrokes[d] = clientStrokes[c]

\* C3: in every step the old log is a prefix of the new one; the log changes
\* only when the server takes a stroke frame, and then the new log is the old
\* one followed by that frame's stroke.
C3_LogAppendOnly ==
    [][ /\ IsPrefix(strokes, strokes')
        /\ \A ws \in Clients :
               Accepted(ws) =>
                   strokes' = Append(strokes, Head(toServer[ws]).value.stroke)
        /\ strokes' # strokes => \E ws \in Clients : Accepted(ws)
      ]_vars

\* the log holds two different strokes
C3_Witness ==
    /\ Len(strokes) >= 2
    /\ \E i, j \in 1..Len(strokes) : strokes[i] # strokes[j]

\* C4: when the server takes a stroke-update frame of socket s, every other
\* open socket is sent that preview and socket s is sent nothing.
C4_PreviewForwarded ==
    [][ \A s \in Clients :
            (/\ Dispatched(s)
             /\ FrameType(Head(toServer[s])) = "stroke-update")
            => /\ toClient'[s] = toClient[s]
               /\ \A p \in Clients \ {s} :
                      conn[p] = "open" =>
                          /\ Len(toClient'[p]) = Len(toClient[p]) + 1
                          /\ FrameType(toClient'[p][Len(toClient'[p])]) = "stroke-update"
      ]_vars

C6_RelayCarriesSenderId ==
    \A d \in Clients : \A i \in 1..Len(toClient[d]) :
        FrameType(toClient[d][i]) = "stroke" =>
            /\ Has(toClient[d][i].value, "clientId")
            /\ toClient[d][i].value.clientId = clientId[origin[d][i]]

\* the fields a serialized stroke has
StrokeFields == {"points", "color", "width"}

\* the frame is not JSON, or lacks a required field at the top level or
\* inside the stroke
Malformed(text) ==
    \/ text.kind # "object"
    \/ ~Has(text.value, "type")
    \/ ~Has(text.value, "stroke")
    \/ ~(StrokeFields \subseteq DOMAIN text.value.stroke)

\* C7: when the server takes a malformed frame the log is unchanged, nothing
\* is sent to any socket and the server stays up.
C7_MalformedTolerated ==
    [][ \A ws \in Clients :
            (Dispatched(ws) /\ Malformed(Head(toServer[ws])))
            => /\ strokes' = strokes
               /\ toClient' = toClient
               /\ ~crashed'
      ]_vars

\* C8: no frame queued for a client is a preview keyed by that client's own
\* id, and no client's preview table has an entry under its own id.
C8_NoSelfPreview ==
    \A c \in Clients :
        /\ \A i \in 1..Len(toClient[c]) :
               ~(/\ FrameType(toClient[c][i]) = "stroke-update"
                 /\ Has(toClient[c][i].value, "clientId")
                 /\ toClient[c][i].value.clientId = clientId[c])
        /\ clientId[c] \notin DOMAIN remoteStrokes[c]

\* the server took a preview of s while s and another socket were open
C8_Witness ==
    \E s, p \in Clients :
        /\ s # p
        /\ "stroke-update" \in handled[s]
        /\ conn[s] = "open" /\ conn[p] = "open"
        /\ wsState[s] = "open" /\ wsState[p] = "open"

\* C9: on every socket the first frame sent is the history snapshot, no other
\* frame sent on it is a snapshot, the frames still queued are the last ones
\* sent, and a client that has handled no frame holds no stroke.
C9_SnapshotFirstAndOnce ==
    \A c \in Clients :
        /\ conn[c] = "none" => sent[c] = <<>>
        /\ conn[c] # "none" =>
               /\ sent[c] # <<>>
               /\ sent[c][1] = "history"
               /\ \A i \in 2..Len(sent[c]) : sent[c][i] = "stroke"
        /\ Len(toClient[c]) <= Len(sent[c])
        /\ \A i \in 1..Len(toClient[c]) :
               FrameType(toClient[c][i]) =
                   sent[c][Len(sent[c]) - Len(toClient[c]) + i]
        /\ Len(toClient[c]) = Len(sent[c]) => clientStrokes[c] = <<>>

\* a socket that connected after a stroke was finalized was sent its snapshot
\* and then a stroke, and has handled the snapshot
C9_Witness ==
    \E c \in Clients :
        /\ joinedAt[c] >= 1
        /\ sent[c] = <<"history", "stroke">>
        /\ Len(toClient[c]) = 1

\* C10: when the server takes a stroke frame, the stroke is appended to the
\* log, every socket that is open (the sender's included) is sent exactly one
\* stroke frame carrying it, and every other socket is sent nothing.
C10_BroadcastToOpen ==
    [][ \A ws \in Clients :
            Accepted(ws) =>
                /\ strokes' = Append(strokes, Head(toServer[ws]).value.stroke)
                /\ \A d \in Clients :
                       IF conn[d] = "open"
                       THEN /\ Len(toClient'[d]) = Len(toClient[d]) + 1
                            /\ SubSeq(toClient'[d], 1, Len(toClient[d])) = toClient[d]
                            /\ FrameType(toClient'[d][Len(toClient'[d])]) = "stroke"
                            /\ toClient'[d][Len(toClient'[d])].value.stroke =
                                   Head(toServer[ws]).value.stroke
                       ELSE toClient'[d] = toClient[d]
      ]_vars

\* a stroke was accepted while one socket was no longer open: that socket was
\* sent its snapshot only, the sender was sent the stroke
C10_Witness ==
    \E c, d \in Clients :
        /\ conn[c] \in {"closing", "closed"}
        /\ joinedAt[c] = 0
        /\ sent[c] = <<"history">>
        /\ "stroke" \in handled[d]
        /\ Len(strokes) = 1
        /\ sent[d] = <<"history", "stroke">>

\* the ws.send calls of page c that returned and carried a frame of the type
SentOf(c, type) == SelectSeq(sendLog[c], LAMBDA e : e.type = type)

\* page c handles a pointerup in this step
IsPointerUp(c) == ups'[c] = ups[c] + 1

\* page c handles a pointerup or a pointercancel in this step
PointerReleased(c) ==
    /\ activePointers'[c] # activePointers[c]
    /\ activePointers'[c] \subseteq activePointers[c]

\* the interval callback of page c sends a preview in this step
PreviewSent(c) ==
    /\ Len(sendLog'[c]) = Len(sendLog[c]) + 1
    /\ sendLog'[c][Len(sendLog'[c])].type = "stroke-update"

\* C11: among the 'stroke' frames a page has sent, no two carry the stroke of
\* the same gesture.
C11_OneStrokePerGesture ==
    \A c \in Clients :
        \A i, j \in 1..Len(SentOf(c, "stroke")) :
            SentOf(c, "stroke")[i].gesture = SentOf(c, "stroke")[j].gesture => i = j

\* two fingers went down and both were lifted; the page started one stroke and
\* sent one 'stroke' frame
C11_Witness ==
    /\ ups[TouchPage] = 2
    /\ gesture[TouchPage] = 1
    /\ activePointers[TouchPage] = {}
    /\ Len(SentOf(TouchPage, "stroke")) = 1

\* C12: when a page handles a pointerup or a pointercancel while it holds an
\* in-progress stroke, no interval is live afterwards; and a preview is sent
\* only while a pointer is down.
C12_ReleaseStopsTimer ==
    [][ \A c \in Clients :
            /\ (PointerReleased(c) /\ currentStroke[c] # Null) => timers'[c] = {}
            /\ PreviewSent(c) => activePointers[c] # {}
      ]_vars

\* the strokes of the history of a page that were relayed for a frame of the
\* socket, in history order
RECURSIVE Own(_, _, _)
Own(history, from, socket) ==
    IF history = <<>> \/ from = <<>> THEN <<>>
    ELSE (IF Head(from) = socket THEN <<Head(history)>> ELSE <<>>)
         \o Own(Tail(history), Tail(from), socket)

\* the strokes of the history of page c that answer its own frames
Mine(c) == Own(clientStrokes[c], pushedFrom[c], c)

\* the 'stroke' frames of page c that went out on the open socket
WireStrokes(c) == SelectSeq(sendLog[c], LAMBDA e : e.type = "stroke" /\ e.wire)

\* C13: the strokes of a page's history that are relays of its own frames are
\* the strokes of the first 'stroke' frames it sent, each once and in sending
\* order; and the stroke the page holds as currentStroke is not one of the
\* strokes it has sent.
C13_SelfStrokeOnce ==
    \A c \in Clients :
        /\ Len(Mine(c)) <= Len(WireStrokes(c))
        /\ \A i \in 1..Len(Mine(c)) : Mine(c)[i] = WireStrokes(c)[i].stroke
        /\ \A i, j \in 1..Len(WireStrokes(c)) :
               WireStrokes(c)[i].gesture = WireStrokes(c)[j].gesture => i = j
        /\ currentStroke[c] # Null =>
               \A i \in 1..Len(WireStrokes(c)) : WireStrokes(c)[i].gesture # gesture[c]

\* a page has handled the relay of its own stroke and holds, as currentStroke,
\* a later stroke with the same points, colour and width
C13_Witness ==
    \E c \in Clients :
        /\ Len(Mine(c)) = 1
        /\ Len(clientStrokes[c]) = 1
        /\ currentStroke[c] = Mine(c)[1]

\* the socket of page c is open at both ends
Connected(c) == conn[c] = "open" /\ wsState[c] = "open"

\* the socket of page c is open at both ends and its history is not the log
Behind(c) == Connected(c) /\ clientStrokes[c] # strokes

\* C14: whenever a connected page's history is not the log, later the page is
\* no longer connected or its history is the log as it is then (the log only
\* grows, so it holds every stroke it held before, the page's own included);
\* and from some point on the history of every connected page is the log.
C14_EventualConsistency ==
    /\ \A c \in Clients : Behind(c) ~> ~Behind(c)
    /\ <>[](\A c \in Clients : ~Behind(c))

\* every page is connected and holds the whole log, which has a stroke of
\* every page
C14_Witness ==
    /\ \A c \in Clients : Connected(c) /\ clientStrokes[c] = strokes
    /\ \A c, d \in Clients : \E i \in 1..Len(pushedFrom[c]) : pushedFrom[c][i] = d

\* C15: when a page handles a pointerup while it holds an in-progress stroke,
\* it sends one frame, a 'stroke' frame with that stroke, and afterwards
\* currentStroke is null and no interval is live.
C15_PointerUpFinalizes ==
    [][ \A c \in Clients :
            (IsPointerUp(c) /\ currentStroke[c] # Null)
            => /\ sendLog'[c] = Append(sendLog[c], Sent(c, "stroke"))
               /\ currentStroke'[c] = Null
               /\ updateInterval'[c] = NoInterval
               /\ timers'[c] = {}
      ]_vars

\* C16: among the frames a page has sent, no 'stroke-update' frame of a gesture
\* comes after the 'stroke' frame of that gesture.
C16_PreviewBeforeFinal ==
    \A c \in Clients :
        \A i, j \in 1..Len(sendLog[c]) :
            (/\ sendLog[c][i].type = "stroke"
             /\ sendLog[c][j].type = "stroke-update"
             /\ sendLog[c][i].gesture = sendLog[c][j].gesture)
            => j < i

\* a page sent a preview of a stroke and then the stroke; an interval of an
\* earlier gesture is still live and the page holds no stroke
C16_Witness ==
    /\ \E i, j \in 1..Len(sendLog[TouchPage]) :
           /\ i < j
           /\ sendLog[TouchPage][i].type = "stroke-update"
           /\ sendLog[TouchPage][j].type = "stroke"
           /\ sendLog[TouchPage][i].gesture = sendLog[TouchPage][j].gesture
    /\ timers[TouchPage] # {}
    /\ currentStroke[TouchPage] = Null

\* C17: when a page handles a history frame, its history becomes the strokes
\* of the frame, its preview table becomes empty, and currentStroke,
\* updateInterval and the live intervals do not change.
C17_SnapshotReplaces ==
    [][ \A c \in Clients :
            (/\ toClient[c] # <<>>
             /\ toClient'[c] = Tail(toClient[c])
             /\ FrameType(Head(toClient[c])) = "history"
             /\ Has(Head(toClient[c]).value, "strokes"))
            => /\ clientStrokes'[c] = Head(toClient[c]).value.strokes
               /\ remoteStrokes'[c] = EmptyMap
               /\ currentStroke'[c] = currentStroke[c]
               /\ updateInterval'[c] = updateInterval[c]
               /\ timers'[c] = timers[c]
      ]_vars

\* a page that holds an in-progress stroke handled a stroke, a preview of
\* another page and then an empty snapshot
C17_Witness ==
    /\ seen[FeedPage] = <<"stroke", "stroke-update", "history">>
    /\ clientStrokes[FeedPage] = <<>>
    /\ remoteStrokes[FeedPage] = EmptyMap
    /\ currentStroke[FeedPage] # Null
    /\ timers[FeedPage] # {}

\* C18: a step in which a socket is closed on the page's side or leaves the
\* open state on the server's side changes neither the log nor any queue of
\* frames to a page; the server sends nothing on a socket that has left the
\* open state, and a page whose socket is closed handles no frame.
C18_DisconnectFrame ==
    [][ \A ws \in Clients :
            /\ (\/ conn[ws] = "open" /\ conn'[ws] # "open"
                \/ conn[ws] = "closing" /\ conn'[ws] # "closing"
                \/ wsState[ws] = "open" /\ wsState'[ws] # "open")
               => /\ strokes' = strokes
                  /\ toClient' = toClient
                  /\ sent' = sent
            /\ conn[ws] \in {"closing", "closed"} => sent'[ws] = sent[ws]
            /\ wsState[ws] = "closed" => seen'[ws] = seen[ws]
      ]_vars

\* a socket has left the open state and the log holds a stroke that came
\* neither in its snapshot nor in a relay sent on it
C18_Witness ==
    \E ws \in Clients :
        /\ conn[ws] \in {"closing", "closed"}
        /\ joinedAt[ws] + Len(SelectSeq(sent[ws], LAMBDA t : t = "stroke")) < Len(strokes)

\* C19: no page has more than one live interval.
C19_OneTimer ==
    \A c \in Clients : Cardinality(timers[c]) <= 1

\* C20: when the stroke a page holds is dropped (currentStroke becomes null or
\* a new stroke takes its place), the page has sent a 'stroke' frame of that
\* gesture.
C20_NoSilentDiscard ==
    [][ \A c \in Clients :
            (/\ currentStroke[c] # Null
             /\ currentStroke'[c] = Null \/ gesture'[c] # gesture[c])
            => \E i \in 1..Len(sendLog'[c]) :
                   /\ sendLog'[c][i].type = "stroke"
                   /\ sendLog'[c][i].gesture = gesture[c]
      ]_vars

====
